---- MODULE Spec2Model ----
(***************************************************************************)
(* CryptoNight v0 digest engine (bertptrs/cryptonight-hash).               *)
(*                                                                         *)
(* Data representation.  A byte is a number in 0..255.  A 16-byte block    *)
(* ([u8; 16], U64p, __m128i) is a tuple of 16 bytes in memory order; the   *)
(* byte the code calls block[i] is block[i + 1] here.  A u64 lane is the   *)
(* 8 bytes of its little-endian image (the code only runs the lane view    *)
(* on x86), so 64-bit and 128-bit arithmetic is done on byte limbs and     *)
(* never leaves the range of 32-bit integers.  The 200-byte Keccak         *)
(* state is a tuple of 200 bytes, the scratchpad a tuple of blocks.        *)
(***************************************************************************)
EXTENDS Integers, Sequences, FiniteSets, TLC

(***************************************************************************)
(* Bounds of the model.  The program's scratchpad has 2^14 chunks of 128   *)
(* bytes and its main loop 524 288 iterations; the model runs the same     *)
(* code on 2^ChunkBits chunks for MaxRounds iterations.                    *)
(***************************************************************************)
ChunkBits == 1
MaxRounds == 6

\* ------------------------------------------------------------------------
\* Bit operations on bytes (Rust's ^, &, !, << and rotate_left on u8)
\* ------------------------------------------------------------------------

RECURSIVE XorBits(_, _, _)
XorBits(x, y, n) ==
    IF n = 0 THEN 0
    ELSE ((x + y) % 2) + 2 * XorBits(x \div 2, y \div 2, n - 1)

RECURSIVE AndBits(_, _, _)
AndBits(x, y, n) ==
    IF n = 0 THEN 0
    ELSE ((x % 2) * (y % 2)) + 2 * AndBits(x \div 2, y \div 2, n - 1)

RECURSIVE XorRow(_, _, _)
XorRow(x, lo, hi) ==
    IF lo = hi THEN <<XorBits(x, lo, 4)>>
    ELSE XorRow(x, lo, (lo + hi) \div 2) \o XorRow(x, (lo + hi) \div 2 + 1, hi)

RECURSIVE XorRows(_, _)
XorRows(lo, hi) ==
    IF lo = hi THEN <<XorRow(lo, 0, 15)>>
    ELSE XorRows(lo, (lo + hi) \div 2) \o XorRows((lo + hi) \div 2 + 1, hi)

\* x ^ y on 4-bit halves, tabulated once
XorTable == XorRows(0, 15)

\* x ^ y on u8
bxor(x, y) ==
    16 * XorTable[(x \div 16) + 1][(y \div 16) + 1] + XorTable[(x % 16) + 1][(y % 16) + 1]

RECURSIVE AndRow(_, _, _)
AndRow(x, lo, hi) ==
    IF lo = hi THEN <<AndBits(x, lo, 4)>>
    ELSE AndRow(x, lo, (lo + hi) \div 2) \o AndRow(x, (lo + hi) \div 2 + 1, hi)

RECURSIVE AndRows(_, _)
AndRows(lo, hi) ==
    IF lo = hi THEN <<AndRow(lo, 0, 15)>>
    ELSE AndRows(lo, (lo + hi) \div 2) \o AndRows((lo + hi) \div 2 + 1, hi)

\* x & y on 4-bit halves, tabulated once
AndTable == AndRows(0, 15)

\* x & y on u8
band(x, y) ==
    16 * AndTable[(x \div 16) + 1][(y \div 16) + 1] + AndTable[(x % 16) + 1][(y % 16) + 1]

\* !x on u8
bnot(x) == 255 - x

\* x.wrapping_sub(y) on u8
wrapping_sub8(x, y) == (x - y + 256) % 256

\* x.rotate_left(n) on u8, 0 < n < 8
rotate_left8(x, n) == ((x * (2 ^ n)) % 256) + (x \div (2 ^ (8 - n)))

\* bit i of byte x
Bit(x, i) == (x \div (2 ^ i)) % 2

\* A tuple built element by element is written [k \in 1..n |-> e] \o <<>>:
\* the concatenation makes it a sequence whose elements are computed once.

\* the element of a one-element set; Only({e : x \in {v}}) is e with x bound to v
Only(S) == CHOOSE r \in S : TRUE

\* the code's slice s[from..to] (0-based, end exclusive)
Slice(s, from, to) == SubSeq(s, from + 1, to)

ZeroBlock == <<0, 0, 0, 0, 0, 0, 0, 0, 0, 0, 0, 0, 0, 0, 0, 0>>

\* ------------------------------------------------------------------------
\* Portable AES (src/src/aes/mod.rs)
\* ------------------------------------------------------------------------

\* gmul2: multiply by two in GF(2^8), branch free
gmul2(a) ==
    LET h == bnot(wrapping_sub8(a \div 128, 1))
    IN  bxor((a * 2) % 256, band(27, h))

\* Multiplication in GF(2^8) modulo x^8 + x^4 + x^3 + x + 1 (FIPS-197, 4.2)
Xtime(a) == IF a >= 128 THEN bxor((a * 2) % 256, 27) ELSE a * 2

RECURSIVE GMul(_, _)
GMul(a, b) ==
    IF b = 0 THEN 0
    ELSE Only({bxor(IF b % 2 = 1 THEN a ELSE 0, GMul(a2, b \div 2)) : a2 \in {Xtime(a)}})

\* x^n
RECURSIVE GPow(_, _)
GPow(x, n) ==
    IF n = 0 THEN 1
    ELSE Only({Only({GMul(hh, IF n % 2 = 1 THEN x ELSE 1) : hh \in {GMul(h, h)}}) :
                  h \in {GPow(x, n \div 2)}})

\* ANTI_LOG_LOOKUP[i] = 3^i, LOG_LOOKUP[b] = the i with 3^i = b (LOG_LOOKUP[0] = 0)
\* <<x^lo, .., x^hi>>
RECURSIVE Powers(_, _, _)
Powers(x, lo, hi) ==
    IF lo = hi THEN <<GPow(x, lo)>>
    ELSE Powers(x, lo, (lo + hi) \div 2) \o Powers(x, (lo + hi) \div 2 + 1, hi)

ANTI_LOG_LOOKUP == Powers(3, 0, 255)

LogOf(b) == IF b = 0 THEN 0 ELSE CHOOSE i \in 0..254 : ANTI_LOG_LOOKUP[i + 1] = b

RECURSIVE Logs(_, _)
Logs(lo, hi) ==
    IF lo = hi THEN <<LogOf(lo)>>
    ELSE Logs(lo, (lo + hi) \div 2) \o Logs((lo + hi) \div 2 + 1, hi)

LOG_LOOKUP == Logs(0, 255)

multiplicative_inverse(b) ==
    IF b <= 1 THEN b
    ELSE ANTI_LOG_LOOKUP[(255 - LOG_LOOKUP[b + 1]) + 1]

\* b ^ b.rotate_left(1) ^ b.rotate_left(2) ^ b.rotate_left(3) ^ b.rotate_left(4) ^ 0x63
s_box_affine(b) ==
    bxor(bxor(bxor(bxor(bxor(b, rotate_left8(b, 1)), rotate_left8(b, 2)),
                   rotate_left8(b, 3)), rotate_left8(b, 4)), 99)

s_box(c) == Only({s_box_affine(b) : b \in {multiplicative_inverse(c)}})

\* s_box tabulated once (the code recomputes it on every use)
RECURSIVE SBoxes(_, _)
SBoxes(lo, hi) ==
    IF lo = hi THEN <<s_box(lo)>>
    ELSE SBoxes(lo, (lo + hi) \div 2) \o SBoxes((lo + hi) \div 2 + 1, hi)

SBoxTable == SBoxes(0, 255)

\* SubBytes step, on a slice of any length
sub_bytes(block) == [k \in 1..Len(block) |-> SBoxTable[block[k] + 1]] \o <<>>

\* ShiftRows step: the three rotations of the code, as the resulting layout
shift_rows(block) ==
    LET b(i) == block[i + 1]
    IN  <<b(0), b(5), b(10), b(15),
          b(4), b(9), b(14), b(3),
          b(8), b(13), b(2), b(7),
          b(12), b(1), b(6), b(11)>>

mix_column(slice) ==
    LET a(i) == slice[i + 1]
        b(i) == gmul2(slice[i + 1])
        D(i) == bxor(bxor(bxor(bxor(b(i), a((i + 3) % 4)), a((i + 2) % 4)),
                          a((i + 1) % 4)), b((i + 1) % 4))
    IN  <<D(0), D(1), D(2), D(3)>>

mix_columns(block) ==
    mix_column(SubSeq(block, 1, 4)) \o mix_column(SubSeq(block, 5, 8))
        \o mix_column(SubSeq(block, 9, 12)) \o mix_column(SubSeq(block, 13, 16))

\* xor(block, round_key): block ^= round_key over the shorter of the two (zip)
xor(block, round_key) ==
    [k \in 1..Len(block) |->
        IF k <= Len(round_key) THEN bxor(block[k], round_key[k]) ELSE block[k]] \o <<>>

aes_round(block, round_key) ==
    xor(mix_columns(shift_rows(sub_bytes(block))), round_key)

\* new_key.rotate_left(1) on a slice
slice_rotate_left1(s) == IF s = <<>> THEN s ELSE Tail(s) \o <<Head(s)>>

\* new_key[0] ^= rcon
xor_rcon(new_key, rcon) == <<bxor(new_key[1], rcon)>> \o Tail(new_key)

\* schedule_core without the rotation
schedule_core_norotate(new_key, rcon) == xor_rcon(sub_bytes(new_key), rcon)

schedule_core(new_key, rcon) == xor_rcon(sub_bytes(slice_rotate_left1(new_key)), rcon)

\* derive_key: the loop over offset = 32, 36, .., 156
RECURSIVE derive_key_loop(_, _, _)
derive_key_loop(key_buffer, rcon, offset) ==
    IF offset >= 160 THEN key_buffer
    ELSE LET previous == Slice(key_buffer, offset - 4, offset)
             core == IF offset % 32 = 0 THEN schedule_core(previous, rcon)
                     ELSE IF offset % 32 = 16 THEN sub_bytes(previous)
                     ELSE previous
             next == xor(core, Slice(key_buffer, offset - 32, offset))
         IN  Only({derive_key_loop(extended,
                                   IF offset % 32 = 0 THEN gmul2(rcon) ELSE rcon,
                                   offset + 4) : extended \in {key_buffer \o next}})

derive_key(main) == derive_key_loop(main, 1, 32)

\* the i-th 16-byte round key of a 160-byte key buffer (chunks_exact(16)), i in 1..10
RoundKey(keys, i) == SubSeq(keys, 16 * (i - 1) + 1, 16 * i)

\* ------------------------------------------------------------------------
\* Integer views of byte tuples
\* ------------------------------------------------------------------------

\* value of a little-endian byte tuple (used only where it fits the integers)
RECURSIVE LeValue(_)
LeValue(bytes) ==
    IF bytes = <<>> THEN 0 ELSE Head(bytes) + 256 * LeValue(Tail(bytes))

\* the n-byte little-endian image of v
RECURSIVE LeBytes(_, _)
LeBytes(v, n) ==
    IF n = 0 THEN <<>> ELSE <<v % 256>> \o LeBytes(v \div 256, n - 1)

\* x & mask on byte tuples of equal length
RECURSIVE and_bytes(_, _)
and_bytes(x, m) ==
    IF x = <<>> THEN <<>>
    ELSE <<band(Head(x), Head(m))>> \o and_bytes(Tail(x), Tail(m))

\* wrapping addition of little-endian words of equal length
RECURSIVE add_limbs(_, _, _)
add_limbs(x, y, carry) ==
    IF x = <<>> THEN <<>>
    ELSE LET s == Head(x) + Head(y) + carry
         IN  <<s % 256>> \o add_limbs(Tail(x), Tail(y), s \div 256)

wrapping_add64(x, y) == add_limbs(x, y, 0)

\* column k (0-based) of the schoolbook product of two 8-byte words
MulColumn(x, y, k) ==
    LET lo == IF k > 7 THEN k - 7 ELSE 0
        hi == IF k > 7 THEN 7 ELSE k
        RECURSIVE Sum(_)
        Sum(i) == IF i > hi THEN 0 ELSE x[i + 1] * y[k - i + 1] + Sum(i + 1)
    IN  Sum(lo)

\* u128::from(x) * u128::from(y) for u64 x, y: the 16-byte little-endian product
RECURSIVE mul_carry(_, _, _, _)
mul_carry(x, y, k, carry) ==
    IF k = 16 THEN <<>>
    ELSE LET s == (IF k < 15 THEN MulColumn(x, y, k) ELSE 0) + carry
         IN  <<s % 256>> \o mul_carry(x, y, k + 1, s \div 256)

widening_mul64(x, y) == mul_carry(x, y, 0, 0)

\* the two u64 lanes of a 16-byte value, and a value from its lanes
Lane0(v) == SubSeq(v, 1, 8)
Lane1(v) == SubSeq(v, 9, 16)

\* ------------------------------------------------------------------------
\* U64p (src/src/u64p.rs)
\* ------------------------------------------------------------------------

\* U64p::from(bytes): copy_nonoverlapping of the 16 bytes
U64p_from(bytes) == SubSeq(bytes, 1, 16)

\* usize::from(U64p): (data.0 & mask) as usize / 16, mask = 0x1F_FFF0 for the
\* 2^21-byte scratchpad (size - 16 for a scratchpad of size bytes)
U64p_into_usize(data, size) ==
    LeValue(and_bytes(Lane0(data), LeBytes(size - 16, 8))) \div 16

U64p_add(self, rhs) ==
    wrapping_add64(Lane0(self), Lane0(rhs)) \o wrapping_add64(Lane1(self), Lane1(rhs))

\* the product kept as the little-endian 128-bit integer: U64p(r as u64, (r >> 64) as u64)
U64p_of_product_le(r) == r

\* U64p((r >> 64) as u64, r as u64)
U64p_of_product(r) == SubSeq(r, 9, 16) \o SubSeq(r, 1, 8)

U64p_mul(self, rhs) == U64p_of_product(widening_mul64(Lane0(self), Lane0(rhs)))

U64p_bitxor(self, rhs) == xor(self, rhs)

\* ------------------------------------------------------------------------
\* Scaled program constants
\* ------------------------------------------------------------------------

\* SP_SIZE (1 << 21 in the program): the scratchpad's size in bytes
SP_SIZE == 2 ^ (7 + ChunkBits)

\* ROUNDS (524_288 in the program): iterations of the main loop
ROUNDS == MaxRounds

\* the program's own scratchpad size, for the address arithmetic at full width
REAL_SP_SIZE == 2097152

NumBlocks == SP_SIZE \div 16
NumChunks == SP_SIZE \div 128

\* ------------------------------------------------------------------------
\* SSE2 / SSE4.1 / AES-NI instructions used by src/src/aesni.rs
\* (semantics of the Intel instruction set reference)
\* ------------------------------------------------------------------------

mm_xor_si128(a, b) == [k \in 1..16 |-> bxor(a[k], b[k])] \o <<>>

mm_add_epi64(a, b) ==
    add_limbs(SubSeq(a, 1, 8), SubSeq(b, 1, 8), 0) \o add_limbs(SubSeq(a, 9, 16), SubSeq(b, 9, 16), 0)

\* _mm_extract_epi32(a, k) and _mm_extract_epi64(a, k): lane k as bytes
mm_extract_epi32(a, k) == SubSeq(a, 4 * k + 1, 4 * k + 4)
mm_extract_epi64(a, k) == SubSeq(a, 8 * k + 1, 8 * k + 8)

\* _mm_set_epi64x(e1, e0): e0 is the low lane
mm_set_epi64x(e1, e0) == e0 \o e1

\* _mm_slli_si128(a, n): shift left by n bytes
mm_slli_si128(a, n) == [k \in 1..16 |-> IF k <= n THEN 0 ELSE a[k - n]] \o <<>>

\* _mm_shuffle_epi32(a, imm): dword i of the result is dword (imm >> 2i) & 3 of a
mm_shuffle_epi32(a, imm) ==
    [k \in 1..16 |-> a[4 * ((imm \div (4 ^ ((k - 1) \div 4))) % 4) + ((k - 1) % 4) + 1]] \o <<>>

\* the S-box as FIPS-197 defines it: inverse in GF(2^8), then the affine map
HwAffine(v) ==
    LET B(i) == (Bit(v, i) + Bit(v, (i + 4) % 8) + Bit(v, (i + 5) % 8)
                 + Bit(v, (i + 6) % 8) + Bit(v, (i + 7) % 8) + Bit(99, i)) % 2
    IN  B(0) + 2 * B(1) + 4 * B(2) + 8 * B(3) + 16 * B(4) + 32 * B(5) + 64 * B(6) + 128 * B(7)

HwSBoxOf(x) == Only({HwAffine(v) : v \in {GPow(x, 254)}})

RECURSIVE HwSBoxes(_, _)
HwSBoxes(lo, hi) ==
    IF lo = hi THEN <<HwSBoxOf(lo)>>
    ELSE HwSBoxes(lo, (lo + hi) \div 2) \o HwSBoxes((lo + hi) \div 2 + 1, hi)

HwSBox == HwSBoxes(0, 255)

\* <<m * lo, .., m * hi>>
RECURSIVE Multiples(_, _, _)
Multiples(m, lo, hi) ==
    IF lo = hi THEN <<GMul(lo, m)>>
    ELSE Multiples(m, lo, (lo + hi) \div 2) \o Multiples(m, (lo + hi) \div 2 + 1, hi)

HwMul2 == Multiples(2, 0, 255)
HwMul3 == Multiples(3, 0, 255)

\* ShiftRows on the column-major state: row r of column c comes from column c + r
HwShiftRows(s) ==
    [k \in 1..16 |-> s[((k - 1) % 4) + 4 * ((((k - 1) \div 4) + ((k - 1) % 4)) % 4) + 1]] \o <<>>

HwSubBytes(s) == [k \in 1..16 |-> HwSBox[s[k] + 1]] \o <<>>

\* MixColumns: each column times the matrix (2 3 1 1 / 1 2 3 1 / 1 1 2 3 / 3 1 1 2)
HwMixColumns(s) ==
    LET e(i, k) == s[4 * ((i - 1) \div 4) + ((((i - 1) % 4) + k) % 4) + 1]
    IN  [i \in 1..16 |->
            bxor(bxor(HwMul2[e(i, 0) + 1], HwMul3[e(i, 1) + 1]), bxor(e(i, 2), e(i, 3)))] \o <<>>

\* AESENC: ShiftRows, SubBytes, MixColumns, then xor with the round key
mm_aesenc_si128(a, RoundKey128) ==
    mm_xor_si128(HwMixColumns(HwSubBytes(HwShiftRows(a))), RoundKey128)

\* AESKEYGENASSIST: with X1, X3 the dwords 1 and 3 of a, the result's dwords are
\* SubWord(X1), RotWord(SubWord(X1)) ^ rcon, SubWord(X3), RotWord(SubWord(X3)) ^ rcon
mm_aeskeygenassist_si128(a, rcon) ==
    LET sw(k) == <<HwSBox[a[4 * k + 1] + 1], HwSBox[a[4 * k + 2] + 1],
                   HwSBox[a[4 * k + 3] + 1], HwSBox[a[4 * k + 4] + 1]>>
        rot(w) == <<bxor(w[2], rcon), w[3], w[4], w[1]>>
    IN  sw(1) \o rot(sw(1)) \o sw(3) \o rot(sw(3))

\* ------------------------------------------------------------------------
\* Accelerated backend (src/src/aesni.rs)
\* ------------------------------------------------------------------------

\* n times: temp4 = _mm_slli_si128(temp4, 4); temp = _mm_xor_si128(temp, temp4)
RECURSIVE slli_xor(_, _, _)
slli_xor(temp, temp4, n) ==
    IF n = 0 THEN temp
    ELSE Only({slli_xor(mm_xor_si128(temp, shifted), shifted, n - 1) :
                  shifted \in {mm_slli_si128(temp4, 4)}})

\* the new temp1
key_256_assist_1(temp1, temp2) ==
    mm_xor_si128(slli_xor(temp1, temp1, 3), mm_shuffle_epi32(temp2, 255))

\* the new temp3
key_256_assist_2(temp1, temp3) ==
    mm_xor_si128(slli_xor(temp3, temp3, 3),
                 mm_shuffle_epi32(mm_aeskeygenassist_si128(temp1, 0), 170))

\* keys after keys[n] = the assist_2 of its last two entries
with_assist_2(keys) ==
    keys \o <<key_256_assist_2(keys[Len(keys)], keys[Len(keys) - 1])>>

\* keys after keys[n] = the assist_1 of its last two entries with round constant rcon
with_assist_1(keys, rcon) ==
    keys \o <<key_256_assist_1(keys[Len(keys) - 1],
                               mm_aeskeygenassist_si128(keys[Len(keys)], rcon))>>

\* derive_key(temp1, temp3): the ten round keys, as a tuple of ten blocks
RECURSIVE aesni_derive_key_from(_, _)
aesni_derive_key_from(keys, rcon) ==
    IF Len(keys) >= 10 THEN keys
    ELSE Only({aesni_derive_key_from(more, 2 * rcon) :
                  more \in {with_assist_2(with_assist_1(keys, rcon))}})

aesni_derive_key(temp1, temp3) == aesni_derive_key_from(<<temp1, temp3>>, 1)

\* for key in keys.iter() { *block = _mm_aesenc_si128(*block, *key) }, from key k on
RECURSIVE aesni_rounds(_, _, _)
aesni_rounds(block, keys, k) ==
    IF k > Len(keys) THEN block
    ELSE Only({aesni_rounds(x, keys, k + 1) : x \in {mm_aesenc_si128(block, keys[k])}})

\* to_sp_index with a mask one bit too wide
to_sp_index_wide(a, size) ==
    LeValue(and_bytes(mm_extract_epi32(a, 0), LeBytes(2 * size - 1, 4))) \div 16

\* to_sp_index: (low 32 bits & mask) as usize / size_of::<__m128i>(), the mask
\* being 0x1F_FFFF for the 2^21-byte scratchpad (size - 1 for size bytes)
to_sp_index(a, size) ==
    LeValue(and_bytes(mm_extract_epi32(a, 0), LeBytes(size - 1, 4))) \div 16

cn_8byte_add(a, b) == mm_add_epi64(a, b)

\* _mm_set_epi64x(c as i64, (c >> 64) as i64)
cn_set_product(c) == mm_set_epi64x(SubSeq(c, 1, 8), SubSeq(c, 9, 16))

\* cn_8byte_mul with the two words of the product handed to _mm_set_epi64x in
\* the other order
cn_8byte_mul_swapped(a, b) ==
    mm_set_epi64x(SubSeq(widening_mul64(mm_extract_epi64(a, 0), mm_extract_epi64(b, 0)), 9, 16),
                  SubSeq(widening_mul64(mm_extract_epi64(a, 0), mm_extract_epi64(b, 0)), 1, 8))

cn_8byte_mul(a, b) ==
    cn_set_product(widening_mul64(mm_extract_epi64(a, 0), mm_extract_epi64(b, 0)))

\* the [__m128i] view of the first 192 bytes of the Keccak state: block k, k in 0..11
KeccacBlock(keccac, k) == SubSeq(keccac, 16 * k + 1, 16 * k + 16)

\* keccac[4..] as eight blocks, and the state with those eight blocks replaced
FinalRegion(keccac) == [j \in 1..8 |-> KeccacBlock(keccac, 3 + j)] \o <<>>

Flatten8(b) == b[1] \o b[2] \o b[3] \o b[4] \o b[5] \o b[6] \o b[7] \o b[8]

\* WithFinalRegion with the region taken one block too early: keccac[3..]
WithFinalRegion_early(keccac, blocks) ==
    SubSeq(keccac, 1, 48) \o Flatten8(blocks) \o SubSeq(keccac, 177, 200)

WithFinalRegion(keccac, blocks) ==
    SubSeq(keccac, 1, 64) \o Flatten8(blocks) \o SubSeq(keccac, 193, 200)

\* scratchpad chunk i (0-based) as eight blocks, and the scratchpad with it replaced
Chunk(scratchpad, i) == SubSeq(scratchpad, 8 * i + 1, 8 * i + 8)

WithChunk(scratchpad, i, blocks) ==
    SubSeq(scratchpad, 1, 8 * i) \o blocks \o SubSeq(scratchpad, 8 * i + 9, Len(scratchpad))

WithBlock(scratchpad, index, block) ==
    SubSeq(scratchpad, 1, index) \o <<block>> \o SubSeq(scratchpad, index + 2, Len(scratchpad))

\* copy_chunk with a copy that stops one block short of the chunk's end
copy_chunk_short(scratchpad, i, blocks) ==
    [blocks |-> blocks,
     sp |-> WithChunk(scratchpad, i, SubSeq(blocks, 1, 7) \o <<scratchpad[8 * i + 8]>>)]

\* scratchpad_chunk.copy_from_slice(&blocks): [blocks, scratchpad] after chunk i
copy_chunk(scratchpad, i, blocks) == [blocks |-> blocks, sp |-> WithChunk(scratchpad, i, blocks)]

\* init_scratchpad, one pass of its loop over the chunks: [blocks, scratchpad]
aesni_init_scratchpad_chunk(keys, blocks, scratchpad, i) ==
    copy_chunk(scratchpad, i, [j \in 1..8 |-> aesni_rounds(blocks[j], keys, 1)] \o <<>>)

\* main_loop, one iteration, statement by statement.  In the result c, d, t,
\* addr1 and addr2 record the cell read by the first transfer, the cell read
\* by the second, the sum, and the two indexes.
aesni_second_store(a, b, scratchpad, c, address1, address2, d, tmp) ==
    [a |-> mm_xor_si128(d, tmp), b |-> b, sp |-> WithBlock(scratchpad, address2, tmp),
     c |-> c, d |-> d, t |-> tmp, addr1 |-> address1, addr2 |-> address2]

aesni_second_transfer(a, b, scratchpad, c, address1, address2) ==
    aesni_second_store(a, b, scratchpad, c, address1, address2, scratchpad[address2 + 1],
                       cn_8byte_add(a, cn_8byte_mul(b, scratchpad[address2 + 1])))

\* aesni_first_store with the second address taken from b as it was before
\* the first transfer
aesni_first_store_stale(a, b, scratchpad, size, c, address1, b1) ==
    aesni_second_transfer(a, b1, WithBlock(scratchpad, address1, mm_xor_si128(b1, b)),
                          c, address1, to_sp_index(b, size))

aesni_first_store(a, b, scratchpad, size, c, address1, b1) ==
    aesni_second_transfer(a, b1, WithBlock(scratchpad, address1, mm_xor_si128(b1, b)),
                          c, address1, to_sp_index(b1, size))

aesni_first_transfer(a, b, scratchpad, size, address1) ==
    aesni_first_store(a, b, scratchpad, size, scratchpad[address1 + 1], address1,
                      mm_aesenc_si128(scratchpad[address1 + 1], a))

aesni_main_loop_iter(a, b, scratchpad, size) ==
    aesni_first_transfer(a, b, scratchpad, size, to_sp_index(a, size))

\* finalize_state, one pass of its loop over the chunks: the new keccac
aesni_finalize_state_chunk(keys, keccac, scratchpad, i) ==
    WithFinalRegion(keccac,
        [j \in 1..8 |->
            aesni_rounds(mm_xor_si128(KeccacBlock(keccac, 3 + j), scratchpad[8 * i + j]),
                         keys, 1)] \o <<>>)

\* ------------------------------------------------------------------------
\* Portable backend (src/src/aes/mod.rs)
\* ------------------------------------------------------------------------

\* for key in round_keys_buffer.chunks_exact(16) { aes_round(block, key) }, from key k on
RECURSIVE aes_rounds(_, _, _)
aes_rounds(block, round_keys_buffer, k) ==
    IF 16 * k > Len(round_keys_buffer) THEN block
    ELSE Only({aes_rounds(x, round_keys_buffer, k + 1) :
                  x \in {aes_round(block, RoundKey(round_keys_buffer, k))}})

\* init_scratchpad with the rounds applied to a copy of the eight blocks, the
\* working blocks themselves starting afresh for every chunk
aes_init_scratchpad_chunk_fresh(round_keys_buffer, blocks, scratchpad, i) ==
    [blocks |-> blocks,
     sp |-> WithChunk(scratchpad, i,
                      [j \in 1..8 |-> aes_rounds(blocks[j], round_keys_buffer, 1)] \o <<>>)]

\* init_scratchpad, one pass of its loop over the chunks: [blocks, scratchpad]
aes_init_scratchpad_chunk(round_keys_buffer, blocks, scratchpad, i) ==
    copy_chunk(scratchpad, i,
               [j \in 1..8 |-> aes_rounds(blocks[j], round_keys_buffer, 1)] \o <<>>)

\* main_loop, one iteration, statement by statement (c, d, t, addr1, addr2 as
\* for the accelerated loop)
aes_second_store(a, b, scratchpad, c, address1, address2, d, tmp) ==
    [a |-> U64p_bitxor(d, tmp), b |-> b, sp |-> WithBlock(scratchpad, address2, tmp),
     c |-> c, d |-> d, t |-> tmp, addr1 |-> address1, addr2 |-> address2]

aes_second_transfer(a, b, scratchpad, c, address1, address2) ==
    aes_second_store(a, b, scratchpad, c, address1, address2, scratchpad[address2 + 1],
                     U64p_add(a, U64p_mul(b, scratchpad[address2 + 1])))

aes_first_store(a, b, scratchpad, size, c, address1, b1) ==
    aes_second_transfer(a, b1, WithBlock(scratchpad, address1, U64p_bitxor(b1, b)),
                        c, address1, U64p_into_usize(b1, size))

aes_first_transfer(a, b, scratchpad, size, address1) ==
    aes_first_store(a, b, scratchpad, size, scratchpad[address1 + 1], address1,
                    aes_round(scratchpad[address1 + 1], a))

aes_main_loop_iter(a, b, scratchpad, size) ==
    aes_first_transfer(a, b, scratchpad, size, U64p_into_usize(a, size))

\* xor(final_block, scratchpad_chunk) on the 128-byte region, block by block
XorRegion(final_block, chunk) == [j \in 1..8 |-> xor(final_block[j], chunk[j])] \o <<>>

\* the AES rounds of finalize_state on the eight blocks x
implode_rounds(round_keys_buffer, keccac, x) ==
    WithFinalRegion(keccac, [j \in 1..8 |-> aes_rounds(x[j], round_keys_buffer, 1)] \o <<>>)

\* finalize_state, one pass of its loop over the chunks: the new keccac
aes_finalize_state_chunk(round_keys_buffer, keccac, scratchpad, i) ==
    implode_rounds(round_keys_buffer, keccac,
                   XorRegion(FinalRegion(keccac), Chunk(scratchpad, i)))

\* ------------------------------------------------------------------------
\* The engine of src/src/lib.rs
\* ------------------------------------------------------------------------

\* transmute of [u8; 16] to u128: the same 16 bytes
to_u128(a) == a

\* (a & mask) as usize, a byte address; mask = 0x1F_FFF0 (size - 16 for size bytes)
to_scratch_pad_address(a, size) ==
    LeValue(and_bytes(to_u128(a), LeBytes(size - 16, 16)))

MASK == <<255, 255, 255, 255, 255, 255, 255, 255, 0, 0, 0, 0, 0, 0, 0, 0>>

\* transmute(a * b) of the two masked u128
scratch_mul(a, b) ==
    widening_mul64(SubSeq(and_bytes(to_u128(a), MASK), 1, 8),
                   SubSeq(and_bytes(to_u128(b), MASK), 1, 8))

scratch_add(a, b) ==
    wrapping_add64(SubSeq(a, 1, 8), SubSeq(b, 1, 8)) \o wrapping_add64(SubSeq(a, 9, 16), SubSeq(b, 9, 16))

lib_init_scratchpad_chunk(round_keys_buffer, blocks, scratchpad, i) ==
    copy_chunk(scratchpad, i,
               [j \in 1..8 |-> aes_rounds(blocks[j], round_keys_buffer, 1)] \o <<>>)

\* CryptoNight::main_loop, one iteration, statement by statement; the slice
\* scratch_pad[address..end] is block address / 16 of the scratchpad
lib_second_store(a, b, scratch_pad, c, address1, address2, d, tmp) ==
    [a |-> d, b |-> b, sp |-> WithBlock(scratch_pad, address2 \div 16, xor(d, tmp)),
     c |-> c, d |-> d, t |-> tmp, addr1 |-> address1 \div 16, addr2 |-> address2 \div 16]

lib_second_transfer(a, b, scratch_pad, c, address1, address2) ==
    lib_second_store(a, b, scratch_pad, c, address1, address2,
                     scratch_pad[(address2 \div 16) + 1],
                     scratch_add(a, scratch_mul(b, scratch_pad[(address2 \div 16) + 1])))

lib_first_store(a, b, scratch_pad, size, c, address1, b1) ==
    lib_second_transfer(a, b1, WithBlock(scratch_pad, address1 \div 16, xor(b1, b)),
                        c, address1, to_scratch_pad_address(b1, size))

lib_first_transfer(a, b, scratch_pad, size, address1) ==
    lib_first_store(a, b, scratch_pad, size, scratch_pad[(address1 \div 16) + 1], address1,
                    aes_round(scratch_pad[(address1 \div 16) + 1], a))

lib_main_loop_iter(a, b, scratch_pad, size) ==
    lib_first_transfer(a, b, scratch_pad, size, to_scratch_pad_address(a, size))

lib_finalize_state_chunk(round_keys_buffer, keccac, scratch_pad, i) ==
    implode_rounds(round_keys_buffer, keccac,
                   XorRegion(FinalRegion(keccac), Chunk(scratch_pad, i)))

\* ------------------------------------------------------------------------
\* External primitives, as black boxes.  Keccak-f[1600] is stood in for by a
\* fixed mixing of the 200 state bytes, the Keccak-256-full absorber by a
\* sponge over it, and a finalist hash by the term naming it and its input.
\* ------------------------------------------------------------------------

\* bytes absorbed per block by the stand-in sponge (136 in Keccak-256)
KeccakRate == 2

\* input calls per hasher considered
MaxInputs == 2

\* digests run one after the other on one caller's buffer
MaxUses == 2

keccakf(state) ==
    [k \in 1..200 |->
        bxor(SBoxTable[bxor(state[k], state[(k % 200) + 1]) + 1], (k * 13) % 256)] \o <<>>

Zeros(n) == [k \in 1..n |-> 0] \o <<>>

ZeroState == Zeros(200)

\* sha3::Keccak256Full: Default, Input::input, Reset::reset, FixedOutput::fixed_result
Keccak256Full_default == [state |-> ZeroState, buffer |-> <<>>]

RECURSIVE Keccak256Full_absorb(_, _)
Keccak256Full_absorb(state, pending) ==
    IF Len(pending) < KeccakRate THEN [state |-> state, buffer |-> pending]
    ELSE Only({Keccak256Full_absorb(st, SubSeq(pending, KeccakRate + 1, Len(pending))) :
                  st \in {keccakf(xor(state, SubSeq(pending, 1, KeccakRate)))}})

Keccak256Full_input(h, data) == Keccak256Full_absorb(h.state, h.buffer \o data)

Keccak256Full_reset(h) == Keccak256Full_default

\* the last block: the buffered bytes, then the padding 0x01 .. 0x80
Keccak256Full_pad(buffer) ==
    [k \in 1..KeccakRate |->
        bxor(IF k <= Len(buffer) THEN buffer[k] ELSE IF k = Len(buffer) + 1 THEN 1 ELSE 0,
             IF k = KeccakRate THEN 128 ELSE 0)] \o <<>>

Keccak256Full_fixed_result(h) == keccakf(xor(h.state, Keccak256Full_pad(h.buffer)))

\* ------------------------------------------------------------------------
\* The hasher (src/src/lib.rs)
\* ------------------------------------------------------------------------

\* #[derive(Default)] struct CryptoNight { internal_hasher }
CryptoNight_default == [internal_hasher |-> Keccak256Full_default]

\* impl Input for CryptoNight
input(self, data) == [internal_hasher |-> Keccak256Full_input(self.internal_hasher, data)]

\* reset that leaves the inner hasher as it is
reset_noop(self) == self

\* impl Reset for CryptoNight
reset(self) == [internal_hasher |-> Keccak256Full_reset(self.internal_hasher)]

\* Digest::digest(x): new, input(x), then fixed_result on the hasher returned here
digest_hasher(x) == input(CryptoNight_default, x)

\* hash_final_state: the finalist chosen by state[0] & 3, applied to the whole state
hash_final_state(state) ==
    LET sel == band(state[1], 3)
    IN  CASE sel = 0 -> [hash |-> "Blake256", input |-> state]
          [] sel = 1 -> [hash |-> "Groestl256", input |-> state]
          [] sel = 2 -> [hash |-> "Jh256", input |-> state]
          [] sel = 3 -> [hash |-> "Skein256", input |-> state]
          [] OTHER -> [hash |-> "unreachable", input |-> <<>>]

\* a and b of the main loop: keccac[0..32] ^ keccac[32..64], split in two
split_ab(ab) == [a |-> SubSeq(ab, 1, 16), b |-> SubSeq(ab, 17, 32)]

lib_initial_ab(keccac) == split_ab(xor(SubSeq(keccac, 1, 32), SubSeq(keccac, 33, 64)))

\* ------------------------------------------------------------------------
\* Runs of the engine.  A run is one execution of an engine on its own
\* scratchpad: be names the engine ("lib", "aes" or "aesni"), entry is the
\* Keccak state it was given, sp0 the scratchpad it was given, imploded the
\* state finalize_state left, and a0, b0, spb (a, b and the scratchpad when the
\* iteration began), c, d, t, addr1, addr2 describe the last main-loop iteration.
\* ------------------------------------------------------------------------

\* a scratchpad as the allocator hands it over: never written, every byte of
\* block k being whatever was there (a pattern that depends on fill here)
Uninit(fill) ==
    [k \in 1..NumBlocks |-> [j \in 1..16 |-> (fill + 7 * k + j) % 256] \o <<>>] \o <<>>

\* entry of fixed_result / digest_main on a scratchpad holding the blocks
\* scratchpad: the keys, the eight blocks and the scratchpad
Enter(be, keccac, scratchpad) ==
    [be |-> be, entry |-> keccac, keccac |-> keccac, sp |-> scratchpad, sp0 |-> scratchpad,
     keys |-> IF be = "aesni"
              THEN aesni_derive_key(KeccacBlock(keccac, 0), KeccacBlock(keccac, 1))
              ELSE derive_key(SubSeq(keccac, 1, 32)),
     blocks |-> FinalRegion(keccac),
     a |-> ZeroBlock, b |-> ZeroBlock, a0 |-> ZeroBlock, b0 |-> ZeroBlock, spb |-> scratchpad,
     c |-> ZeroBlock, d |-> ZeroBlock, t |-> ZeroBlock,
     addr1 |-> 0, addr2 |-> 0, imploded |-> <<>>, digest |-> [hash |-> "none", input |-> <<>>]]

\* one pass of init_scratchpad's loop
Exploded(st, x) == [st EXCEPT !.blocks = x.blocks, !.sp = x.sp]

ExplodeStep(st, i) ==
    Exploded(st,
        CASE st.be = "aesni" -> aesni_init_scratchpad_chunk(st.keys, st.blocks, st.sp, i)
          [] st.be = "aes" -> aes_init_scratchpad_chunk(st.keys, st.blocks, st.sp, i)
          [] OTHER -> lib_init_scratchpad_chunk(st.keys, st.blocks, st.sp, i))

\* between init_scratchpad and main_loop: a and b from the first 64 state bytes
EnterMain(st) ==
    CASE st.be = "aesni" ->
           [st EXCEPT !.a = mm_xor_si128(KeccacBlock(st.keccac, 0), KeccacBlock(st.keccac, 2)),
                      !.b = mm_xor_si128(KeccacBlock(st.keccac, 1), KeccacBlock(st.keccac, 3))]
      [] st.be = "aes" ->
           [st EXCEPT !.a = U64p_bitxor(U64p_from(SubSeq(st.keccac, 1, 16)),
                                        U64p_from(SubSeq(st.keccac, 33, 48))),
                      !.b = U64p_bitxor(U64p_from(SubSeq(st.keccac, 17, 32)),
                                        U64p_from(SubSeq(st.keccac, 49, 64)))]
      [] OTHER ->
           [st EXCEPT !.a = lib_initial_ab(st.keccac).a, !.b = lib_initial_ab(st.keccac).b]

\* one iteration of main_loop
Iterated(st, x) ==
    [st EXCEPT !.a = x.a, !.b = x.b, !.sp = x.sp, !.c = x.c, !.d = x.d, !.t = x.t,
               !.addr1 = x.addr1, !.addr2 = x.addr2,
               !.a0 = st.a, !.b0 = st.b, !.spb = st.sp]

MainStep(st) ==
    Iterated(st,
        CASE st.be = "aesni" -> aesni_main_loop_iter(st.a, st.b, st.sp, SP_SIZE)
          [] st.be = "aes" -> aes_main_loop_iter(st.a, st.b, st.sp, SP_SIZE)
          [] OTHER -> lib_main_loop_iter(st.a, st.b, st.sp, SP_SIZE))

\* entry of finalize_state: the keys derived from state bytes 32..64
EnterImplode(st) ==
    [st EXCEPT !.keys = IF st.be = "aesni"
                        THEN aesni_derive_key(KeccacBlock(st.keccac, 2), KeccacBlock(st.keccac, 3))
                        ELSE derive_key(SubSeq(st.keccac, 33, 64))]

\* one pass of finalize_state's loop
ImplodeStep(st, i) ==
    [st EXCEPT !.keccac =
        CASE st.be = "aesni" -> aesni_finalize_state_chunk(st.keys, st.keccac, st.sp, i)
          [] st.be = "aes" -> aes_finalize_state_chunk(st.keys, st.keccac, st.sp, i)
          [] OTHER -> lib_finalize_state_chunk(st.keys, st.keccac, st.sp, i)]

\* after finalize_state: keccakf on the state, then hash_final_state
Finished(st, k) ==
    [st EXCEPT !.imploded = st.keccac, !.keccac = k, !.digest = hash_final_state(k)]

FinishStep(st) == Finished(st, keccakf(st.keccac))

\* ------------------------------------------------------------------------
\* The state machine
\* ------------------------------------------------------------------------

\* inputs handed to input() and digest()
Parts == {<<>>, <<84>>, <<105>>, <<104, 114>>}

\* what an allocation can return: where the block lies and what its bytes
\* hold, for the first and the second run started on it
AllocOutcomes ==
    {[addr |-> 4096, fill |-> <<0, 255>>], [addr |-> 4104, fill |-> <<165, 90>>]}

\* buffers a caller hands to digest_with_buffer
Buffers ==
    {[len |-> SP_SIZE, addr |-> 8192, fill |-> 17],
     [len |-> SP_SIZE, addr |-> 8200, fill |-> 17],
     [len |-> SP_SIZE - 16, addr |-> 8192, fill |-> 17],
     [len |-> SP_SIZE + 128, addr |-> 8192, fill |-> 17],
     [len |-> 0, addr |-> 8192, fill |-> 17]}

\* sample blocks for the arithmetic helpers: lanes 6 and 7, all ones, a high
\* low-lane bit pattern, and index bits above and below the mask
ArithSamples ==
    {<<6, 0, 0, 0, 0, 0, 0, 0, 0, 0, 0, 0, 0, 0, 0, 0>>,
     <<7, 0, 0, 0, 0, 0, 0, 0, 0, 0, 0, 0, 0, 0, 0, 0>>,
     <<255, 255, 255, 255, 255, 255, 255, 255, 255, 255, 255, 255, 255, 255, 255, 255>>,
     <<239, 205, 171, 137, 103, 69, 35, 1, 1, 2, 3, 4, 5, 6, 7, 8>>,
     <<0, 0, 0, 0, 1, 0, 0, 0, 9, 0, 0, 0, 0, 0, 0, 0>>,
     <<15, 0, 32, 0, 0, 0, 0, 128, 0, 0, 0, 0, 0, 0, 0, 0>>,
     <<241, 255, 31, 255, 0, 0, 0, 0, 255, 0, 0, 0, 0, 0, 0, 1>>,
     <<16, 0, 224, 3, 2, 0, 0, 64, 0, 0, 0, 0, 0, 0, 0, 128>>}

\* registers for the address functions: the three low bytes drawn from
\* IndexBytes, every other byte rest
IndexBytes == {0, 15, 16, 31, 224, 240, 255}

IndexSample(b0, b1, b2, rest) ==
    <<b0, b1, b2, rest, rest, rest, rest, rest, rest, rest, rest, rest, rest, rest, rest, rest>>

VARIABLES pc, idx, hasher, msg, calls, wasReset, streamed, buf, uses, run, arith

vars == <<pc, idx, hasher, msg, calls, wasReset, streamed, buf, uses, run, arith>>

NoBuffer == [len |-> 0, addr |-> 0, own |-> "none"]
NoRuns == <<>>
NoArith == [op |-> "none"]

Init ==
    /\ pc = "absorb"
    /\ idx = 0
    /\ hasher = CryptoNight_default
    /\ msg = <<>>
    /\ calls = 0
    /\ wasReset = FALSE
    /\ streamed = FALSE
    /\ buf = NoBuffer
    /\ uses = 0
    /\ run = NoRuns
    /\ arith = NoArith

\* CryptoNight::input(data)
Input(data) ==
    /\ pc = "absorb"
    /\ calls < MaxInputs
    /\ hasher' = input(hasher, data)
    /\ msg' = msg \o data
    /\ calls' = calls + 1
    /\ UNCHANGED <<pc, idx, wasReset, streamed, buf, run, arith, uses>>

\* CryptoNight::reset()
Reset ==
    /\ pc = "absorb"
    /\ ~wasReset
    /\ hasher' = reset(hasher)
    /\ msg' = <<>>
    /\ wasReset' = TRUE
    /\ UNCHANGED <<pc, idx, calls, streamed, buf, run, arith, uses>>

\* CryptoNight::fixed_result, up to the call of init_scratchpad.  The hasher is
\* consumed.  Beside it runs a hasher given the same message in one input call.
Finalize ==
    /\ pc = "absorb"
    /\ \E al \in AllocOutcomes :
          /\ buf' = [len |-> SP_SIZE, addr |-> al.addr, own |-> "hasher"]
          /\ run' = [r \in {"inc", "one"} |->
                        IF r = "inc"
                        THEN Enter("lib", Keccak256Full_fixed_result(hasher.internal_hasher),
                                   Uninit(al.fill[1]))
                        ELSE Enter("lib", Keccak256Full_fixed_result(
                                              digest_hasher(msg).internal_hasher),
                                   Uninit(al.fill[2]))]
    /\ pc' = "explode"
    /\ idx' = 0
    /\ hasher' = CryptoNight_default
    /\ calls' = 0
    /\ wasReset' = FALSE
    /\ streamed' = (calls # 1 \/ wasReset)
    /\ UNCHANGED <<msg, arith, uses>>

\* CryptoNight::allocate_scratchpad: SP_SIZE bytes at a 16-byte boundary
allocate_scratchpad == {al \in AllocOutcomes : al.addr % 16 = 0}

\* the assertions of finalize_with on the scratchpad handed in
ValidScratchpad(b) == b.len = SP_SIZE /\ b.addr % 16 = 0

\* the portable and the accelerated digest_main, each run twice: aes1 and ni1
\* on the buffer of the call (holding own_aes, own_ni at entry), aes2 and ni2
\* on a scratchpad of their own (holding other at entry)
Backends(keccac, own_aes, own_ni, other) ==
    [r \in {"aes1", "aes2", "ni1", "ni2"} |->
        CASE r = "aes1" -> Enter("aes", keccac, own_aes)
          [] r = "aes2" -> Enter("aes", keccac, other)
          [] r = "ni1" -> Enter("aesni", keccac, own_ni)
          [] OTHER -> Enter("aesni", keccac, other)]

\* the Keccak state digest(x) and digest_with_buffer(x, b) hand to digest_main
KeccakOf(x) == Keccak256Full_fixed_result(digest_hasher(x).internal_hasher)

\* CryptoNight::digest(x): new, input(x), finalize on an allocated scratchpad
Digest(x) ==
    /\ pc = "absorb"
    /\ calls = 0
    /\ ~wasReset
    /\ \E al \in allocate_scratchpad :
          /\ buf' = [len |-> SP_SIZE, addr |-> al.addr, own |-> "hasher"]
          /\ run' = Backends(KeccakOf(x), Uninit(al.fill[1]), Uninit(al.fill[1]),
                             Uninit(al.fill[2]))
    /\ msg' = x
    /\ pc' = "explode"
    /\ UNCHANGED <<idx, hasher, calls, wasReset, streamed, arith, uses>>

\* CryptoNight::digest_with_buffer(x, b): new, input(x), finalize_with(b)
DigestWith(x, b) ==
    /\ pc = "absorb"
    /\ calls = 0
    /\ ~wasReset
    /\ buf' = [len |-> b.len, addr |-> b.addr, own |-> "caller"]
    /\ msg' = x
    /\ IF ValidScratchpad(b)
       THEN /\ \E al \in allocate_scratchpad :
                  run' = Backends(KeccakOf(x), Uninit(b.fill), Uninit(b.fill),
                                  Uninit(al.fill[1]))
            /\ pc' = "explode"
            /\ uses' = 1
       ELSE /\ pc' = "panic"
            /\ UNCHANGED <<run, uses>>
    /\ UNCHANGED <<idx, hasher, calls, wasReset, streamed, arith>>

\* digest_with_buffer(y, b) on the buffer an earlier digest_with_buffer has used:
\* the scratchpad holds what that digest left in it
Reuse(y) ==
    /\ pc = "done"
    /\ buf.own = "caller"
    /\ uses < MaxUses
    /\ \E al \in allocate_scratchpad :
          run' = Backends(KeccakOf(y), run["aes1"].sp, run["ni1"].sp, Uninit(al.fill[1]))
    /\ msg' = y
    /\ pc' = "explode"
    /\ idx' = 0
    /\ uses' = uses + 1
    /\ UNCHANGED <<hasher, calls, wasReset, streamed, buf, arith>>

\* init_scratchpad: one 128-byte chunk; after the last, a and b are set up
Explode ==
    /\ pc = "explode"
    /\ idx < NumChunks
    /\ run' = [r \in DOMAIN run |->
                  IF idx + 1 = NumChunks THEN EnterMain(ExplodeStep(run[r], idx))
                  ELSE ExplodeStep(run[r], idx)]
    /\ IF idx + 1 = NumChunks THEN pc' = "main" /\ idx' = 0 ELSE pc' = pc /\ idx' = idx + 1
    /\ UNCHANGED <<hasher, msg, calls, wasReset, streamed, buf, arith, uses>>

\* main_loop: one iteration; after the last, finalize_state derives its keys
MainLoop ==
    /\ pc = "main"
    /\ idx < ROUNDS
    /\ run' = [r \in DOMAIN run |->
                  IF idx + 1 = ROUNDS THEN EnterImplode(MainStep(run[r]))
                  ELSE MainStep(run[r])]
    /\ IF idx + 1 = ROUNDS THEN pc' = "implode" /\ idx' = 0 ELSE pc' = pc /\ idx' = idx + 1
    /\ UNCHANGED <<hasher, msg, calls, wasReset, streamed, buf, arith, uses>>

\* finalize_state: one 128-byte chunk
Implode ==
    /\ pc = "implode"
    /\ idx < NumChunks
    /\ run' = [r \in DOMAIN run |-> ImplodeStep(run[r], idx)]
    /\ IF idx + 1 = NumChunks THEN pc' = "permute" /\ idx' = 0 ELSE pc' = pc /\ idx' = idx + 1
    /\ UNCHANGED <<hasher, msg, calls, wasReset, streamed, buf, arith, uses>>

\* keccakf on the state and the finalist hash
Finish ==
    /\ pc = "permute"
    /\ run' = [r \in DOMAIN run |-> FinishStep(run[r])]
    /\ pc' = "done"
    /\ UNCHANGED <<idx, hasher, msg, calls, wasReset, streamed, buf, arith, uses>>

Next ==
    \/ \E data \in Parts : Input(data)
    \/ Reset
    \/ Finalize
    \/ \E x \in Parts : Digest(x)
    \/ \E x \in Parts, b \in Buffers : DigestWith(x, b)
    \/ \E y \in Parts : Reuse(y)
    \/ Explode
    \/ MainLoop
    \/ Implode
    \/ Finish

Spec == Init /\ [][Next]_vars

\* ------------------------------------------------------------------------
\* The arithmetic helpers on their own, at the real scratchpad size
\* ------------------------------------------------------------------------

InitArith ==
    /\ pc = "arith"
    /\ idx = 0
    /\ hasher = CryptoNight_default
    /\ msg = <<>>
    /\ calls = 0
    /\ wasReset = FALSE
    /\ streamed = FALSE
    /\ buf = NoBuffer
    /\ uses = 0
    /\ run = NoRuns
    /\ \E x \in ArithSamples, y \in ArithSamples : arith = [op |-> "ready", x |-> x, y |-> y]

\* the three multiplies on x and y
Multiply ==
    /\ pc = "arith"
    /\ arith.op = "ready"
    /\ arith' = [op |-> "mul", x |-> arith.x, y |-> arith.y,
                 U64p |-> U64p_mul(arith.x, arith.y),
                 aesni |-> cn_8byte_mul(arith.x, arith.y),
                 lib |-> scratch_mul(arith.x, arith.y)]
    /\ UNCHANGED <<pc, idx, hasher, msg, calls, wasReset, streamed, buf, run, uses>>

\* the three address functions on a register x
ToIndex(x) ==
    /\ pc = "arith"
    /\ arith.op = "ready"
    /\ arith' = [op |-> "index", x |-> x, y |-> x,
                 U64p |-> U64p_into_usize(x, REAL_SP_SIZE),
                 aesni |-> to_sp_index(x, REAL_SP_SIZE),
                 lib |-> to_scratch_pad_address(x, REAL_SP_SIZE)]
    /\ UNCHANGED <<pc, idx, hasher, msg, calls, wasReset, streamed, buf, run, uses>>

\* the seed of tests::test_derive_key: 00 01 .. 1f
TestSeed == [k \in 1..32 |-> k - 1] \o <<>>

\* derive_key of the portable backend on a 32-byte seed
DeriveKey(seed) ==
    /\ pc = "arith"
    /\ arith.op = "ready"
    /\ arith' = [op |-> "key", x |-> seed, y |-> seed, key |-> derive_key(seed)]
    /\ UNCHANGED <<pc, idx, hasher, msg, calls, wasReset, streamed, buf, run, uses>>

NextArith ==
    \/ Multiply
    \/ DeriveKey(TestSeed)
    \/ DeriveKey(arith.x \o arith.y)
    \/ \E b0 \in IndexBytes, b1 \in IndexBytes, b2 \in IndexBytes, rest \in {0, 255} :
          ToIndex(IndexSample(b0, b1, b2, rest))
    \/ \E x \in ArithSamples : ToIndex(x)

SpecArith == InitArith /\ [][NextArith]_vars

\* ------------------------------------------------------------------------
\* Properties
\* ------------------------------------------------------------------------

\* the engine has been entered and init_scratchpad has finished
AfterExplode == pc \in {"main", "implode", "permute", "done"}

BackendRuns == "aes1" \in DOMAIN run

HasherRuns == "inc" \in DOMAIN run

\* every block of the two scratchpads differs
DifferEverywhere(sp1, sp2) == \A k \in 1..NumBlocks : sp1[k] # sp2[k]

\* C1: a digest on a caller's buffer (runs aes1, ni1), whatever the buffer held
\* at entry, the leftovers of an earlier digest included, equals the digest of
\* the same input on a scratchpad of its own (runs aes2, ni2): once
\* init_scratchpad has finished the two scratchpads are equal block for block,
\* and they stay equal, as do the Keccak state and the digest.
C1_NoCarryover ==
    (BackendRuns /\ AfterExplode) =>
        \A be \in {"aes", "ni"} :
            /\ run[be \o "1"].sp = run[be \o "2"].sp
            /\ run[be \o "1"].keccac = run[be \o "2"].keccac
            /\ run[be \o "1"].digest = run[be \o "2"].digest

\* a second digest on a caller's buffer has finished; at its entry no block of
\* the buffer equalled the block of the scratchpad of the run beside it
C1_Witness ==
    /\ pc = "done"
    /\ BackendRuns
    /\ uses = 2
    /\ run["aes1"].digest.hash # "none"
    /\ DifferEverywhere(run["aes1"].sp0, run["aes2"].sp0)
    /\ DifferEverywhere(run["ni1"].sp0, run["ni2"].sp0)

\* C2: the accelerated digest_main and the portable one, given the same Keccak
\* state and scratchpad, hold the same scratchpad, a and b after every pass of
\* init_scratchpad and every main-loop iteration, the same Keccak state after
\* every pass of finalize_state, and end with the same state and digest.
C2_BackendEquivalence ==
    BackendRuns =>
        \A n \in {"1", "2"} :
            /\ run["ni" \o n].sp = run["aes" \o n].sp
            /\ run["ni" \o n].a = run["aes" \o n].a
            /\ run["ni" \o n].b = run["aes" \o n].b
            /\ run["ni" \o n].blocks = run["aes" \o n].blocks
            /\ run["ni" \o n].keccac = run["aes" \o n].keccac
            /\ run["ni" \o n].imploded = run["aes" \o n].imploded
            /\ run["ni" \o n].digest = run["aes" \o n].digest

\* both backends have finished, the main loop has moved a and b and implode has
\* changed the final region
C2_Witness ==
    /\ pc = "done"
    /\ BackendRuns
    /\ run["ni1"].a # run["ni1"].b
    /\ run["ni1"].t # ZeroBlock
    /\ FinalRegion(run["ni1"].imploded) # FinalRegion(run["ni1"].entry)

\* the engine is running or has returned a digest
InEngine == pc \in {"explode", "main", "implode", "permute", "done"}

\* C3: the engine runs only on a scratchpad of exactly SP_SIZE bytes that
\* starts at a multiple of 16, the one fixed_result allocates included, and a
\* call that panicked was handed a buffer failing one of the two conditions.
C3_ScratchpadContract ==
    /\ InEngine => (buf.len = SP_SIZE /\ buf.addr % 16 = 0)
    /\ pc = "panic" => ~(buf.len = SP_SIZE /\ buf.addr % 16 = 0)

\* the finalist the selector names: 0 Blake-256, 1 Groestl-256, 2 JH-256,
\* 3 Skein-512 with 256 bits of output
FinalistOf(sel) ==
    CASE sel = 0 -> "Blake256"
      [] sel = 1 -> "Groestl256"
      [] sel = 2 -> "Jh256"
      [] sel = 3 -> "Skein512"
      [] OTHER -> "none"

\* C4: the state hashed is keccakf, applied once, of the state finalize_state
\* left, and the digest is the finalist named by the low two bits of byte 0 of
\* that state (Skein-512 cut to 256 bits for 3), applied to all 200 bytes;
\* the unreachable branch is never taken.
C4_FinalistSelection ==
    pc = "done" =>
        \A r \in DOMAIN run :
            /\ run[r].keccac = keccakf(run[r].imploded)
            /\ run[r].digest.hash # "unreachable"
            /\ run[r].digest = [hash |-> FinalistOf(run[r].keccac[1] % 4),
                                input |-> run[r].keccac]

\* C5: a hasher fed its input in any number of input() calls, empty ones and
\* none at all included, and after a reset() only what followed it, enters the
\* engine with the Keccak state of the one-shot digest of the same bytes and
\* returns the same digest.
C5_IncrementalAbsorb ==
    HasherRuns =>
        /\ run["inc"].entry = run["one"].entry
        /\ pc = "done" => run["inc"].digest = run["one"].digest

\* a hasher fed three bytes in more than one input() call has finished
C5_Witness ==
    /\ pc = "done"
    /\ HasherRuns
    /\ streamed
    /\ Len(msg) = 3
    /\ run["inc"].digest.hash # "none"

\* at least one main-loop iteration has run and nothing has touched a, b or
\* the scratchpad since the last one
IterationDone == (pc = "main" /\ idx > 0) \/ pc \in {"implode", "permute", "done"}

\* bytewise XOR of two blocks
BlockXor(x, y) == [k \in 1..16 |-> bxor(x[k], y[k])] \o <<>>

\* C6: after every main-loop iteration of every engine, d being the cell the
\* second transfer read and t the sum it computed, a is d XOR t and the cell
\* at addr2 holds t.
C6_SecondTransfer ==
    IterationDone =>
        \A r \in DOMAIN run :
            /\ run[r].a = BlockXor(run[r].d, run[r].t)
            /\ run[r].sp[run[r].addr2 + 1] = run[r].t

\* index(x) for a scratchpad of size bytes: the low 21 bits of the low word
\* (log2(size) bits here), divided by 16
IndexOf(x, size) == ((x[1] + 256 * x[2] + 65536 * x[3]) % size) \div 16

\* C9: in every main-loop iteration of the portable and the accelerated
\* engine addr1 is the index of a as the iteration found it, c the cell there,
\* the new b is aes_round(c, a), addr2 is the index of the new b, and the
\* second transfer reads the scratchpad as the first left it: d is
\* aes_round(c, a) XOR the previous b when addr2 = addr1, the untouched cell
\* otherwise; the cell at addr1 keeps aes_round(c, a) XOR the previous b unless
\* the second transfer wrote to it.
C9_FirstTransfer ==
    (IterationDone /\ BackendRuns) =>
        \A r \in DOMAIN run :
            /\ run[r].addr1 = IndexOf(run[r].a0, SP_SIZE)
            /\ run[r].c = run[r].spb[run[r].addr1 + 1]
            /\ run[r].b = aes_round(run[r].c, run[r].a0)
            /\ run[r].addr2 = IndexOf(run[r].b, SP_SIZE)
            /\ run[r].d = IF run[r].addr2 = run[r].addr1
                          THEN BlockXor(run[r].b, run[r].b0)
                          ELSE run[r].spb[run[r].addr2 + 1]
            /\ run[r].addr2 # run[r].addr1 =>
                   run[r].sp[run[r].addr1 + 1] = BlockXor(run[r].b, run[r].b0)

\* an iteration of both engines in which the new b led back to the cell the
\* first transfer had just written
C9_Witness ==
    /\ pc = "main"
    /\ idx > 0
    /\ BackendRuns
    /\ run["aes1"].addr2 = run["aes1"].addr1
    /\ run["ni1"].addr2 = run["ni1"].addr1
    /\ run["ni1"].b # run["ni1"].b0

\* the residues that tell 128-bit numbers apart: pairwise coprime, their
\* product above 2^128
Moduli == {46337, 46327, 46309, 46307, 46301, 46279, 46273, 46271, 46261}

\* the little-endian number bytes[k..] modulo m
RECURSIVE Residue(_, _, _)
Residue(bytes, k, m) ==
    IF k > Len(bytes) THEN 0 ELSE (bytes[k] + 256 * Residue(bytes, k + 1, m)) % m

\* the 16 bytes p are the little-endian image of the product of the low
\* 64-bit words of the blocks x and y
IsProductOfLowWords(p, x, y) ==
    \A m \in Moduli :
        Residue(p, 1, m) = (Residue(SubSeq(x, 1, 8), 1, m) * Residue(SubSeq(y, 1, 8), 1, m)) % m

\* the block with its two lanes exchanged
SwapLanes(r) == SubSeq(r, 9, 16) \o SubSeq(r, 1, 8)

\* the 8 bytes of a u64 lane holding n < 256
SmallLane(n) == <<n, 0, 0, 0, 0, 0, 0, 0>>

\* C7: every multiply of the source returns the high 64 bits of the product
\* of the low words in lane 0 and the low 64 bits in lane 1, whatever the high
\* words of its arguments.
C7_HighWordFirst ==
    arith.op = "mul" =>
        /\ IsProductOfLowWords(SwapLanes(arith.U64p), arith.x, arith.y)
        /\ IsProductOfLowWords(SwapLanes(arith.aesni), arith.x, arith.y)
        /\ IsProductOfLowWords(SwapLanes(arith.lib), arith.x, arith.y)

C10_IndexInRange ==
    arith.op = "index" =>
        /\ arith.U64p = IndexOf(arith.x, REAL_SP_SIZE)
        /\ arith.U64p \in 0..131071
        /\ arith.aesni = arith.U64p
        /\ arith.lib = 16 * arith.U64p
        /\ arith.lib + 16 <= REAL_SP_SIZE

\* the address functions applied to a register whose low 21 bits are all
\* ones and whose other bits are ones too: the last block
C10_Witness ==
    /\ arith.op = "index"
    /\ arith.x = IndexSample(255, 255, 255, 255)
    /\ arith.U64p = 131071

\* chunks of the scratchpad init_scratchpad has written so far
ChunksWritten ==
    IF pc = "explode" THEN idx
    ELSE IF pc = "main" /\ idx = 0 THEN NumChunks
    ELSE 0

\* the first n of the 16-byte round keys of keys applied to block in order,
\* each as one full AES round
RECURSIVE RoundsUpTo(_, _, _)
RoundsUpTo(block, keys, n) ==
    IF n = 0 THEN block
    ELSE Only({aes_round(x, SubSeq(keys, 16 * n - 15, 16 * n)) :
                  x \in {RoundsUpTo(block, keys, n - 1)}})

\* ten full AES rounds on one block, keyed in order by the ten round keys
TenRounds(block, keys) == RoundsUpTo(block, keys, 10)

\* E: TenRounds on each of eight blocks
ExplodeRound(blocks, keys) == [j \in 1..8 |-> TenRounds(blocks[j], keys)] \o <<>>

\* C11: while and after init_scratchpad runs, on every engine, chunk 0 of the
\* scratchpad is E(state[64..192]) and every later chunk written is E of the
\* chunk before it, E being the ten explode round keys applied in order as
\* full AES rounds to each of the eight blocks; the Keccak state is as it
\* was at entry.
C11_ExplodeChain ==
    \A r \in DOMAIN run :
        /\ ChunksWritten > 0 =>
               Chunk(run[r].sp, 0) =
                   ExplodeRound(FinalRegion(run[r].entry), derive_key(SubSeq(run[r].entry, 1, 32)))
        /\ \A k \in 1..(ChunksWritten - 1) :
               Chunk(run[r].sp, k) =
                   ExplodeRound(Chunk(run[r].sp, k - 1), derive_key(SubSeq(run[r].entry, 1, 32)))
        /\ pc = "explode" \/ (pc = "main" /\ idx = 0) => run[r].keccac = run[r].entry

\* init_scratchpad of both backends has written every chunk, and the last
\* chunk differs from the one before it
C11_Witness ==
    /\ pc = "main"
    /\ idx = 0
    /\ BackendRuns
    /\ Chunk(run["aes1"].sp, NumChunks - 1) # Chunk(run["aes1"].sp, NumChunks - 2)
    /\ Chunk(run["ni1"].sp, NumChunks - 1) # Chunk(run["ni1"].sp, NumChunks - 2)

\* bytes 0..64 and 192..200 of a Keccak state
Seeds(keccac) == SubSeq(keccac, 1, 64)

Unused(keccac) == SubSeq(keccac, 193, 200)

\* C12: on every engine the Keccak state is byte for byte the state at entry
\* until finalize_state begins; finalize_state changes bytes 64..192 only,
\* so bytes 0..64 and 192..200 are the same when the engine returns as when
\* it was entered.
C12_StateFrame ==
    \A r \in DOMAIN run :
        /\ pc \in {"explode", "main"} => run[r].keccac = run[r].entry
        /\ (pc = "implode" /\ idx = 0) => run[r].keccac = run[r].entry
        /\ pc \in {"implode", "permute"} =>
               /\ Seeds(run[r].keccac) = Seeds(run[r].entry)
               /\ Unused(run[r].keccac) = Unused(run[r].entry)
        /\ pc = "done" =>
               /\ Seeds(run[r].imploded) = Seeds(run[r].entry)
               /\ Unused(run[r].imploded) = Unused(run[r].entry)

\* both backends have returned from finalize_state with every block of the
\* final region changed, the state handed in holding nonzero bytes outside it
C12_Witness ==
    /\ pc = "permute"
    /\ BackendRuns
    /\ \A r \in {"aes1", "ni1"} :
           /\ \A j \in 1..8 : FinalRegion(run[r].keccac)[j] # FinalRegion(run[r].entry)[j]
           /\ Seeds(run[r].entry) # Zeros(64)
           /\ Unused(run[r].entry) # Zeros(8)

\* the four bytes at offset o (0-based) of a key buffer
WordAt(key, o) == SubSeq(key, o + 1, o + 4)

WordXor(v, w) == <<bxor(v[1], w[1]), bxor(v[2], w[2]), bxor(v[3], w[3]), bxor(v[4], w[4])>>

\* SubBytes on a word, with the S-box of FIPS-197
SubWord(w) == <<HwSBox[w[1] + 1], HwSBox[w[2] + 1], HwSBox[w[3] + 1], HwSBox[w[4] + 1]>>

\* the round constant at offset o: 1, 2, 4, 8 for o = 32, 64, 96, 128
RconAt(o) == 2 ^ ((o \div 32) - 1)

\* g at offset o: rotate left one byte, SubBytes and rcon into byte 0 when
\* o % 32 = 0, SubBytes alone when o % 32 = 16, the word itself otherwise
ScheduleG(w, o) ==
    IF o % 32 = 0
    THEN WordXor(SubWord(<<w[2], w[3], w[4], w[1]>>), <<RconAt(o), 0, 0, 0>>)
    ELSE IF o % 32 = 16 THEN SubWord(w)
    ELSE w

\* the 160 bytes FIPS-197 (A.3) and tests::test_derive_key give for TestSeed,
\* after the seed itself
TestExpansion ==
    <<165, 115, 194, 159, 161, 118, 196, 152, 169, 127, 206, 147, 165, 114, 192, 156,
      22, 81, 168, 205, 2, 68, 190, 218, 26, 93, 164, 193, 6, 64, 186, 222,
      174, 135, 223, 240, 15, 241, 27, 104, 166, 142, 213, 251, 3, 252, 21, 103,
      109, 225, 241, 72, 111, 165, 79, 146, 117, 248, 235, 83, 115, 184, 81, 141,
      198, 86, 130, 127, 201, 167, 153, 23, 111, 41, 76, 236, 108, 213, 89, 139,
      61, 226, 58, 117, 82, 71, 117, 231, 39, 191, 158, 180, 84, 7, 207, 57,
      11, 220, 144, 95, 194, 123, 9, 72, 173, 82, 69, 164, 193, 135, 28, 47,
      69, 245, 166, 96, 23, 178, 211, 135, 48, 13, 77, 51, 100, 10, 130, 10>>

\* C13: derive_key turns a 32-byte seed into 160 bytes that begin with the
\* seed and in which, for every offset o = 32, 36, .., 156, the word at o is
\* the word at o - 32 XOR g(the word at o - 4); for the seed 00 01 .. 1f they
\* are the first ten round keys of the Rijndael 256-bit-key expansion.
C13_KeyExpansion ==
    arith.op = "key" =>
        /\ Len(arith.key) = 160
        /\ SubSeq(arith.key, 1, 32) = arith.x
        /\ \A n \in 8..39 :
               WordAt(arith.key, 4 * n) =
                   WordXor(WordAt(arith.key, 4 * n - 32),
                           ScheduleG(WordAt(arith.key, 4 * n - 4), 4 * n))
        /\ arith.x = TestSeed => SubSeq(arith.key, 33, 160) = TestExpansion

\* derive_key has expanded a seed other than that of the test
C13_Witness ==
    /\ arith.op = "key"
    /\ arith.x # TestSeed
    /\ SubSeq(arith.x, 1, 8) = SmallLane(6)
    /\ WordAt(arith.key, 156) # WordAt(arith.key, 124)

====
